---- MODULE Spec2Model ----
(***************************************************************************)
(* Batch orchestration of the RunwayML Act-Two generator:                  *)
(*   src/src/runway_generator.py     RunwayActTwoBatchGenerator            *)
(*   src/src/runway_automation_ui.py RunwayAutomationUI.start_processing   *)
(*                                                                         *)
(* File names are sequences of one-character strings, so that lowercasing, *)
(* substring search, stem/suffix splitting and whitespace splitting are    *)
(* computed the way the Python code computes them.                         *)
(***************************************************************************)
EXTENDS Integers, Sequences, FiniteSets, TLC

(* Strings                                                                 *)

UpperChars == <<"A","B","C","D","E","F","G","H","I","J","K","L","M",
                "N","O","P","Q","R","S","T","U","V","W","X","Y","Z">>

LowerChars == <<"a","b","c","d","e","f","g","h","i","j","k","l","m",
                "n","o","p","q","r","s","t","u","v","w","x","y","z">>

Digits == {"0","1","2","3","4","5","6","7","8","9"}

LetterIdx == 1..Len(UpperChars)

\* str.lower() on one character
LowerChar(c) ==
    IF \E k \in LetterIdx : UpperChars[k] = c
    THEN LowerChars[CHOOSE k \in LetterIdx : UpperChars[k] = c]
    ELSE c

\* str.upper() on one character
UpperChar(c) ==
    IF \E k \in LetterIdx : LowerChars[k] = c
    THEN UpperChars[CHOOSE k \in LetterIdx : LowerChars[k] = c]
    ELSE c

\* str.lower()
ToLower(s) == [k \in 1..Len(s) |-> LowerChar(s[k])]

\* str.upper()
ToUpper(s) == [k \in 1..Len(s) |-> UpperChar(s[k])]

\* needle occurs in hay at 1-based position p
OccursAt(needle, hay, p) ==
    /\ p >= 1
    /\ p + Len(needle) - 1 <= Len(hay)
    /\ SubSeq(hay, p, p + Len(needle) - 1) = needle

\* Python's `needle in hay`
Contains(needle, hay) ==
    \E p \in 1..(Len(hay) + 1) : OccursAt(needle, hay, p)

\* positions of "." that pathlib accepts as the start of the suffix:
\* not the first character, and not the last one
SuffixDots(name) ==
    {p \in 2..(Len(name) - 1) : name[p] = "."}

\* pathlib: Path(name).suffix
PathSuffix(name) ==
    IF SuffixDots(name) = {} THEN <<>>
    ELSE LET p == CHOOSE q \in SuffixDots(name) :
                      \A r \in SuffixDots(name) : r <= q
         IN SubSeq(name, p, Len(name))

\* pathlib: Path(name).stem
PathStem(name) == SubSeq(name, 1, Len(name) - Len(PathSuffix(name)))

IsSpace(c) == c = " "

\* str.split(): the maximal runs of non-whitespace characters, in order
RECURSIVE SplitFrom(_, _, _)
SplitFrom(s, p, cur) ==
    IF p > Len(s)
    THEN IF cur = <<>> THEN <<>> ELSE <<cur>>
    ELSE IF IsSpace(s[p])
         THEN IF cur = <<>>
              THEN SplitFrom(s, p + 1, <<>>)
              ELSE <<cur>> \o SplitFrom(s, p + 1, <<>>)
         ELSE SplitFrom(s, p + 1, Append(cur, s[p]))

Split(s) == SplitFrom(s, 1, <<>>)

\* ' '.join(parts)
RECURSIVE JoinSpace(_)
JoinSpace(parts) ==
    IF parts = <<>> THEN <<>>
    ELSE IF Len(parts) = 1 THEN parts[1]
    ELSE parts[1] \o <<" ">> \o JoinSpace(Tail(parts))

\* str.replace(":", "x")
ReplaceColon(s) == [k \in 1..Len(s) |-> IF s[k] = ":" THEN "x" ELSE s[k]]

(* Files on disk                                                           *)

\* ASCII order of the characters that occur in folder names
AsciiOrder == <<"A","B","a","b">>

Ord(c) == CHOOSE k \in 1..Len(AsciiOrder) : AsciiOrder[k] = c

\* Python's s < t on strings
RECURSIVE StrLess(_, _)
StrLess(s, t) ==
    IF t = <<>> THEN FALSE
    ELSE IF s = <<>> THEN TRUE
    ELSE IF s[1] = t[1] THEN StrLess(Tail(s), Tail(t))
    ELSE Ord(s[1]) < Ord(t[1])

\* the direct subfolders of the root directory
FolderNames == {<<"A">>, <<"b">>}

\* the Downloads folder (path_manager.downloads_dir)
Downloads == <<"D">>

\* image files that may lie in a folder: name, pixel width and height
ImgAlBo == [name |-> <<"g","e","n","x"," ","A","L"," ","B","O"," ","s","e","l","f",".","j","p","g">>, width |-> 1920, height |-> 1080]
ImgDi == [name |-> <<"G","E","N","X","_","d","i",".","P","N","G">>, width |-> 800, height |-> 800]
ImgPhoto == [name |-> <<"p","h","o","t","o",".","j","p","g">>, width |-> 640, height |-> 480]

\* the files in the order iterdir() lists them
FileUniverse == <<ImgAlBo, ImgDi, ImgPhoto>>

FileIdx == 1..Len(FileUniverse)

\* a video already in Downloads that carries the subject of ImgAlBo
OldVideo == [dir |-> Downloads, name |-> <<"a","l","_","b","o","_","f","i","n","a","l",".","m","p","4">>]

\* at most this many files under the root, over all its folders
MaxFiles == 2

\* Path(dir) / name
PathOf(dir, name) == [dir |-> dir, name |-> name]

DotMp4 == <<".","m","p","4">>
ActTwo == <<"_","a","c","t","_","t","w","o","_">>
PatternGenx == <<"g","e","n","x">>
SuffixSelf == <<"s","e","l","f">>

image_extensions ==
    {<<".","j","p","g">>, <<".","j","p","e","g">>, <<".","p","n","g">>, <<".","b","m","p">>, <<".","g","i","f">>, <<".","w","e","b","p">>, <<".","t","i","f","f">>, <<".","t","i","f">>}

video_extensions ==
    {<<".","m","p","4">>, <<".","m","o","v">>, <<".","a","v","i">>, <<".","m","k","v">>, <<".","w","e","b","m">>}
(* RunwayActTwoBatchGenerator: pure parts                                  *)

\* AVAILABLE_RATIOS in dict order; aspect is aspectNum / aspectDen
AVAILABLE_RATIOS == <<
    [name |-> <<"1","6",":","9">>, api_value |-> <<"1","2","8","0",":","7","2","0">>, width |-> 1280, height |-> 720,
     aspectNum |-> 16, aspectDen |-> 9],
    [name |-> <<"9",":","1","6">>, api_value |-> <<"7","2","0",":","1","2","8","0">>, width |-> 720, height |-> 1280,
     aspectNum |-> 9, aspectDen |-> 16],
    [name |-> <<"1",":","1">>, api_value |-> <<"9","6","0",":","9","6","0">>, width |-> 960, height |-> 960,
     aspectNum |-> 1, aspectDen |-> 1],
    [name |-> <<"4",":","3">>, api_value |-> <<"1","1","0","4",":","8","3","2">>, width |-> 1104, height |-> 832,
     aspectNum |-> 4, aspectDen |-> 3],
    [name |-> <<"3",":","4">>, api_value |-> <<"8","3","2",":","1","1","0","4">>, width |-> 832, height |-> 1104,
     aspectNum |-> 3, aspectDen |-> 4],
    [name |-> <<"2","1",":","9">>, api_value |-> <<"1","5","8","4",":","6","7","2">>, width |-> 1584, height |-> 672,
     aspectNum |-> 21, aspectDen |-> 9] >>

Abs(x) == IF x < 0 THEN 0 - x ELSE x

\* 2 ** k
RECURSIVE Pow2(_)
Pow2(k) == IF k = 0 THEN 1 ELSE 2 * Pow2(k - 1)

\* 2 ** k % d
RECURSIVE Pow2Mod(_, _)
Pow2Mod(k, d) == IF k = 0 THEN 1 % d ELSE (2 * Pow2Mod(k - 1, d)) % d

\* the binary exponent e of n / d > 0: 2 ** e <= n / d < 2 ** (e + 1)
RECURSIVE FloatExponent(_, _)
FloatExponent(n, d) ==
    IF n >= 2 * d THEN FloatExponent(n, 2 * d) + 1
    ELSE IF n < d THEN FloatExponent(2 * n, d) - 1
    ELSE 0

\* Python's n / d is the double nearest to the quotient: a multiple of
\* 2 ** (e - 52), e the exponent of the quotient.  FloatError is what it adds
\* to the quotient, in units of 2 ** -52, as the fraction num / den
FloatError(n, d) ==
    LET e == FloatExponent(n, d)
        r == ((n % d) * Pow2Mod(52 - e, d)) % d
        s == IF 2 * r < d THEN 0 - r ELSE d - r
    IN IF e >= 0 THEN [num |-> s * Pow2(e), den |-> d]
       ELSE [num |-> s, den |-> d * Pow2(0 - e)]

Sign(x) == IF x < 0 THEN -1 ELSE IF x > 0 THEN 1 ELSE 0

\* is p, an integer with binary exponent m, no farther from the exact result
\* than half the distance to the double below it, so that the rounded result
\* is p (on the half the result goes to p, whose mantissa is even); the
\* result falls off / below short of p
RoundsUpTo(p, m, off, below) ==
    IF p = Pow2(m) THEN 4 * off <= below * Pow2(m)
    ELSE 2 * off <= below * Pow2(m)

\* int(x * (n / d)): the product of doubles is rounded, then truncated; the
\* rounding matters when x * n / d is a whole number
IntProduct(x, n, d) ==
    IF (x * n) % d # 0 THEN (x * n) \div d
    ELSE LET p == (x * n) \div d
             err == FloatError(n, d)
         IN IF err.num >= 0 THEN p
            ELSE IF RoundsUpTo(p, FloatExponent(p, 1), x * (0 - err.num),
                               err.den)
                 THEN p ELSE p - 1

\* int(x / (n / d)): the quotient of doubles is rounded, then truncated
IntQuotient(x, n, d) ==
    IF (x * d) % n # 0 THEN (x * d) \div n
    ELSE LET q == (x * d) \div n
             err == FloatError(n, d)
         IN IF err.num <= 0 THEN q
            ELSE IF RoundsUpTo(q, FloatExponent(q, 1), q * err.num * d,
                               err.den * n)
                 THEN q ELSE q - 1

\* abs(n/d - r.aspect) < abs(n/d - q.aspect), for d > 0, cross-multiplied
CloserThan(n, d, r, q) ==
    Abs(n * r.aspectDen - r.aspectNum * d) * q.aspectDen
        < Abs(n * q.aspectDen - q.aspectNum * d) * r.aspectDen

\* abs(image_aspect - r["aspect"]) < abs(image_aspect - q["aspect"]) on the
\* doubles image_aspect = n / d and the aspects of the catalog: the quotients
\* decide unless the two are equally far apart, and then the rounding errors
\* of the three divisions do (the subtraction of doubles less than a factor
\* of two apart is exact)
DifferenceLess(n, d, r, q) ==
    IF CloserThan(n, d, r, q) THEN TRUE
    ELSE IF CloserThan(n, d, q, r) THEN FALSE
    ELSE LET a == FloatError(n, d)
             x == FloatError(r.aspectNum, r.aspectDen)
             y == FloatError(q.aspectNum, q.aspectDen)
             sx == Sign(n * r.aspectDen - r.aspectNum * d)
             sy == Sign(n * q.aspectDen - q.aspectNum * d)
         IN sx * (a.num * x.den - x.num * a.den) * y.den
                < sy * (a.num * y.den - y.num * a.den) * x.den

\* the loop of select_best_ratio from entry k on, best the entry kept so far
\* (0 while best_ratio is None and min_difference is infinite)
RECURSIVE BestFrom(_, _, _, _)
BestFrom(n, d, k, best) ==
    IF k > Len(AVAILABLE_RATIOS) THEN best
    ELSE IF best = 0 \/ DifferenceLess(n, d, AVAILABLE_RATIOS[k],
                                       AVAILABLE_RATIOS[best])
         THEN BestFrom(n, d, k + 1, k)
         ELSE BestFrom(n, d, k + 1, best)

\* the loop of select_best_ratio keeping the last entry of least difference
select_best_ratio_last(n, d) ==
    LET best == CHOOSE k \in 1..Len(AVAILABLE_RATIOS) :
            /\ \A j \in 1..Len(AVAILABLE_RATIOS) :
                   ~DifferenceLess(n, d, AVAILABLE_RATIOS[j], AVAILABLE_RATIOS[k])
            /\ \A j \in (k + 1)..Len(AVAILABLE_RATIOS) :
                   DifferenceLess(n, d, AVAILABLE_RATIOS[k], AVAILABLE_RATIOS[j])
    IN AVAILABLE_RATIOS[best]

\* select_best_ratio(n / d): difference < min_difference replaces the entry
\* kept, so the first entry of least difference stays
select_best_ratio(n, d) == AVAILABLE_RATIOS[BestFrom(n, d, 1, 0)]

\* resize_image_smart, the crop box (left, top, right, bottom) it computes
\* for an image of original_width x original_height
CropBox(original_width, original_height, target_ratio) ==
    IF original_width * target_ratio.aspectDen
           > target_ratio.aspectNum * original_height
    THEN \* current_aspect > target_aspect: crop the width
         LET new_width == IntProduct(original_height, target_ratio.aspectNum,
                                     target_ratio.aspectDen)
             left == (original_width - new_width) \div 2
         IN [left |-> left, top |-> 0, right |-> left + new_width,
             bottom |-> original_height]
    ELSE \* crop the height
         LET new_height == IntQuotient(original_width, target_ratio.aspectNum,
                                       target_ratio.aspectDen)
             top == (original_height - new_height) \div 2
         IN [left |-> 0, top |-> top, right |-> original_width,
             bottom |-> top + new_height]

\* the size of the image at the path resize_image_smart returns: the target
\* resolution when the crop and the resize go through, else the size of the
\* original, whose path the except branch returns.  pil_resizes tells
\* whether PIL resizes a crop without pixels or raises on it
resize_image_smart(original_width, original_height, target_ratio, pil_resizes) ==
    LET box == CropBox(original_width, original_height, target_ratio)
        empty == box.right = box.left \/ box.bottom = box.top
    IN IF empty /\ ~pil_resizes
       THEN [width |-> original_width, height |-> original_height]
       ELSE [width |-> target_ratio.width, height |-> target_ratio.height]

\* the value that stands for Python's None where a string is expected
None == <<>>

\* extract_name_from_genx_filename deriving no subject from any name
extract_name_never(filename) == None

\* extract_name_from_genx_filename: the subject of a file name, or None
extract_name_from_genx_filename(filename) ==
    LET parts == Split(PathStem(filename))
    IN IF /\ Len(parts) >= 3
          /\ ToLower(parts[1]) = PatternGenx
          /\ ToLower(parts[Len(parts)]) = SuffixSelf
       THEN JoinSpace(SubSeq(parts, 2, Len(parts) - 1))
       ELSE None

EndsWith(s, t) == OccursAt(t, s, Len(s) - Len(t) + 1)

\* the directories that rglob reaches from the Downloads folder: the folder
\* itself and the folders below it
UnderDownloads(dir) ==
    /\ Len(dir) >= Len(Downloads)
    /\ SubSeq(dir, 1, Len(Downloads)) = Downloads
    /\ (Len(dir) = Len(Downloads) \/ dir[Len(Downloads) + 1] = "/")

\* check_existing_videos looking for a video named exactly as the subject
check_existing_videos_exact(name, vids) ==
    \E v \in vids :
        /\ UnderDownloads(v.dir)
        /\ ToUpper(PathStem(v.name)) = ToUpper(name)

\* check_existing_videos with the tokens looked up in any of the videos
check_existing_videos_any(name, vids) ==
    LET name_parts == Split(name)
    IN \A k \in 1..Len(name_parts) :
           \E v \in vids :
               /\ UnderDownloads(v.dir)
               /\ \E ext \in video_extensions : EndsWith(v.name, ext)
               /\ Contains(ToUpper(name_parts[k]), ToUpper(PathStem(v.name)))

\* check_existing_videos(name) against the video files on disk
check_existing_videos(name, vids) ==
    \E v \in vids :
        /\ UnderDownloads(v.dir)
        /\ \E ext \in video_extensions : EndsWith(v.name, ext)
        /\ LET video_name == ToUpper(PathStem(v.name))
               name_parts == Split(name)
           IN \A k \in 1..Len(name_parts) :
                  Contains(ToUpper(name_parts[k]), video_name)

\* [a-z0-9]
IsLowerAlnum(c) ==
    \/ \E k \in LetterIdx : LowerChars[k] = c
    \/ c \in Digits

\* re.search(r'(^|[^a-z0-9])' + re.escape(p) + r'([^a-z0-9]|$)', s)
BoundarySearch(p, s) ==
    \E q \in 1..(Len(s) + 1) :
        /\ OccursAt(p, s, q)
        /\ (q = 1 \/ ~IsLowerAlnum(s[q - 1]))
        /\ (q + Len(p) - 1 = Len(s) \/ ~IsLowerAlnum(s[q + Len(p)]))

\* the pattern test shared by get_genx_image_files, count_genx_files and
\* get_genx_files_in_folder
PatternMatches(filename, search_pattern, exact_match) ==
    IF exact_match
    THEN BoundarySearch(ToLower(search_pattern), ToLower(filename))
    ELSE Contains(ToLower(search_pattern), ToLower(filename))

IsImageFile(filename) == ToLower(PathSuffix(filename)) \in image_extensions

\* folder.iterdir(): the files of a folder, as indexes of FileUniverse
Listing(files) ==
    SelectSeq([k \in FileIdx |-> k], LAMBDA k : k \in files)

\* Eligible without the check for an existing video
EligibleUnchecked(fname, vids, search_pattern, exact_match) ==
    /\ IsImageFile(fname)
    /\ PatternMatches(fname, search_pattern, exact_match)

\* get_genx_image_files, the test of one file: an image that matches the
\* pattern and whose subject, if it has one, has no video yet
Eligible(fname, vids, search_pattern, exact_match) ==
    LET person_name == extract_name_from_genx_filename(fname)
    IN /\ IsImageFile(fname)
       /\ PatternMatches(fname, search_pattern, exact_match)
       /\ (person_name # None => ~check_existing_videos(person_name, vids))

\* get_genx_image_files: the pattern-matching images whose subject has no
\* video yet (or has no subject), as paths
get_genx_image_files(folder, files, vids, search_pattern, exact_match) ==
    LET keep(k) == Eligible(FileUniverse[k].name, vids, search_pattern,
                            exact_match)
        kept == SelectSeq(Listing(files), keep)
    IN [j \in 1..Len(kept) |-> PathOf(folder, FileUniverse[kept[j]].name)]

\* total_found counting every image, whatever its name
total_found_any(files) ==
    Cardinality({k \in files : IsImageFile(FileUniverse[k].name)})

\* process_all_images, total_found: the images with 'genx' in their name
total_found(files) ==
    Cardinality({k \in files :
        /\ Contains(PatternGenx, ToLower(FileUniverse[k].name))
        /\ IsImageFile(FileUniverse[k].name)})

\* list.sort(key=lambda x: Path(x).name.upper()), by insertion (stable)
RECURSIVE InsertFolder(_, _)
InsertFolder(f, sorted) ==
    IF sorted = <<>> THEN <<f>>
    ELSE IF StrLess(ToUpper(f), ToUpper(sorted[1]))
         THEN <<f>> \o sorted
         ELSE <<sorted[1]>> \o InsertFolder(f, Tail(sorted))

RECURSIVE SortFolders(_)
SortFolders(fs) ==
    IF fs = <<>> THEN <<>>
    ELSE InsertFolder(fs[Len(fs)], SortFolders(SubSeq(fs, 1, Len(fs) - 1)))

\* get_all_folders with every subfolder listed twice
get_all_folders_twice(root_exists, rootListing) ==
    IF root_exists THEN SortFolders(rootListing \o rootListing) ELSE <<>>

\* RunwayActTwoBatchGenerator.get_all_folders: every direct subfolder, sorted;
\* no folder when the root does not exist
get_all_folders(root_exists, rootListing) ==
    IF root_exists THEN SortFolders(rootListing) ELSE <<>>

\* RunwayAutomationUI.get_genx_files_in_folder
get_genx_files_in_folder(files, pattern, exact_match) ==
    SelectSeq(Listing(files), LAMBDA k :
        /\ IsImageFile(FileUniverse[k].name)
        /\ PatternMatches(FileUniverse[k].name, pattern, exact_match))

\* RunwayAutomationUI.get_all_folders: the subfolders that hold a matching
\* image, in iterdir order; no folder when iterdir raises on a missing root
ui_get_all_folders(root_exists, rootListing, imgs, pattern, exact_match) ==
    IF root_exists
    THEN SelectSeq(rootListing, LAMBDA f :
             get_genx_files_in_folder(imgs[f], pattern, exact_match) # <<>>)
    ELSE <<>>

\* OutputPath with the output folder left out of the path
OutputPathNoFolder(output_folder, character_image_name, target_ratio) ==
    [dir |-> <<".">>,
     name |-> PathStem(character_image_name) \o ActTwo
                  \o ReplaceColon(target_ratio.name) \o DotMp4]

\* the output file of create_act_two_generation
OutputPath(output_folder, character_image_name, target_ratio) ==
    PathOf(output_folder,
           PathStem(character_image_name) \o ActTwo
               \o ReplaceColon(target_ratio.name) \o DotMp4)
(* GUISelectors._matches_pattern                                           *)

\* filename_lower.rsplit('.', 1)[0]: the name up to its last dot
RSplitDot(s) ==
    IF \E p \in 1..Len(s) : s[p] = "."
    THEN LET last == CHOOSE p \in 1..Len(s) :
                         /\ s[p] = "."
                         /\ \A r \in (p + 1)..Len(s) : s[r] # "."
         IN SubSeq(s, 1, last - 1)
    ELSE s

\* str.isalnum() on one character
IsAlnum(c) ==
    \/ \E k \in LetterIdx : LowerChars[k] = c \/ UpperChars[k] = c
    \/ c \in Digits

\* str.find: the 0-based position of the first occurrence, -1 without one
Find(needle, hay) ==
    IF Contains(needle, hay)
    THEN (CHOOSE p \in 1..(Len(hay) + 1) :
              /\ OccursAt(needle, hay, p)
              /\ \A r \in 1..(p - 1) : ~OccursAt(needle, hay, r)) - 1
    ELSE -1

\* [-_\s.]
IsSegmentDelimiter(c) == c \in {"-", "_", " ", "."}

\* the first position from p on that holds no delimiter
RECURSIVE SkipDelimiters(_, _)
SkipDelimiters(s, p) ==
    IF p <= Len(s) /\ IsSegmentDelimiter(s[p]) THEN SkipDelimiters(s, p + 1)
    ELSE p

\* re.split(r'[-_\s.]+', s): the pieces between the runs of delimiters, the
\* empty pieces at the two ends included
RECURSIVE SegmentsFrom(_, _, _)
SegmentsFrom(s, p, cur) ==
    IF p > Len(s) THEN <<cur>>
    ELSE IF IsSegmentDelimiter(s[p])
         THEN <<cur>> \o SegmentsFrom(s, SkipDelimiters(s, p), <<>>)
         ELSE SegmentsFrom(s, p + 1, Append(cur, s[p]))

\* _matches_pattern deciding as the pattern test of the folder scan does
matches_pattern_as_scan(filename, pattern, exact_match) ==
    PatternMatches(filename, pattern, exact_match)

\* GUISelectors._matches_pattern
matches_pattern(filename, pattern, exact_match) ==
    LET filename_lower == ToLower(filename)
        pattern_lower == ToLower(pattern)
        name_without_ext == RSplitDot(filename_lower)
    IN IF exact_match
       THEN IF Len(pattern_lower) > 0 /\ pattern_lower[1] \in {"-", "_"}
            THEN IF Contains(pattern_lower, name_without_ext)
                 THEN LET pos == Find(pattern_lower, name_without_ext)
                          end_pos == pos + Len(pattern_lower)
                      IN /\ pos > 0
                         /\ \/ end_pos >= Len(name_without_ext)
                            \/ ~IsAlnum(name_without_ext[end_pos + 1])
                 ELSE FALSE
            ELSE LET segments == SegmentsFrom(name_without_ext, 1, <<>>)
                 IN \E k \in 1..Len(segments) : segments[k] = pattern_lower
       ELSE Contains(pattern_lower, filename_lower)

(* Inputs of the pure functions                                            *)

\* file names
NamePersonSelfie == <<"p","e","r","s","o","n","-","s","e","l","f","i","e",".","j","p","g">>
NameSelfieVacation == <<"s","e","l","f","i","e","-","v","a","c","a","t","i","o","n",".","j","p","g">>
NameSelfieVacationPng == <<"s","e","l","f","i","e","-","v","a","c","a","t","i","o","n",".","p","n","g">>
NameMyselfie == <<"m","y","s","e","l","f","i","e",".","p","n","g">>
NameMySelfie == <<"m","y","_","s","e","l","f","i","e",".","j","p","g">>
NameLaterSelfie == <<"a","-","s","e","l","f","i","e","s","-","s","e","l","f","i","e",".","j","p","g">>
NameJaneSpaces == <<"g","e","n","x"," ","J","A","N","E"," ","D","O","E"," ","s","e","l","f",".","j","p","g">>
NameJaneUnderscores == <<"g","e","n","x","_","J","A","N","E","_","D","O","E","_","s","e","l","f",".","j","p","g">>
NameJaneSelfie == <<"s","e","l","f","i","e"," ","J","A","N","E"," ","D","O","E"," ","s","e","l","f",".","j","p","g">>

ProbeNames == {NamePersonSelfie, NameSelfieVacation, NameSelfieVacationPng,
               NameMyselfie, NameMySelfie, NameLaterSelfie, NameJaneSpaces,
               NameJaneUnderscores, NameJaneSelfie}

\* search patterns
PatternSelfie == <<"s","e","l","f","i","e">>
PatternDashSelfie == <<"-","s","e","l","f","i","e">>

ProbePatterns == {PatternGenx, PatternSelfie, PatternDashSelfie}

\* subjects
SubjectJaneDoe == <<"J","A","N","E"," ","D","O","E">>
SubjectDoe == <<"D","O","E">>

ProbeSubjects == {SubjectJaneDoe, SubjectDoe}

\* a folder below Downloads, and a folder that is not below it
DownloadsSub == Downloads \o <<"/", "s">>
Elsewhere == <<"E">>

\* files that may lie on disk when check_existing_videos runs
VidJaneDoeFinal == PathOf(Downloads, <<"j","a","n","e","_","d","o","e","_","f","i","n","a","l",".","m","p","4">>)
VidJohnSmith == PathOf(Downloads, <<"j","o","h","n","_","s","m","i","t","h",".","m","p","4">>)
VidJane == PathOf(Downloads, <<"j","a","n","e","_","x",".","m","o","v">>)
VidDoe == PathOf(DownloadsSub, <<"d","o","e","_","y",".","m","p","4">>)
VidElsewhere == PathOf(Elsewhere, <<"j","a","n","e","_","d","o","e",".","m","p","4">>)
TextJaneDoe == PathOf(Downloads, <<"j","a","n","e","_","d","o","e",".","t","x","t">>)

ProbeFiles == {VidJaneDoeFinal, VidJohnSmith, VidJane, VidDoe, VidElsewhere,
               TextJaneDoe}

(* The batch run                                                           *)

VARIABLES
    config,                  \* the configuration dictionary of the UI
    images,                  \* folder -> the files in it (indexes of FileUniverse)
    rootListing,             \* the subfolders of the root, in iterdir order
    videos,                  \* the video files on disk, as paths
    driverExists,            \* Path(self.driver_video_path).exists()
    driver_video_data_uri,   \* TRUE once the driver video is encoded and cached
    encodings,               \* the successful encodings of the driver video
    pc,                      \* where the run is
    folders,                 \* the folder list the loop walks
    fi,                      \* 1-based index of the current folder
    genx_image_files,        \* the eligible images of the current folder
    i,                       \* 1-based index of the current image
    total_images,
    successful_generations,
    failed_generations,
    skipped_duplicates,
    processed,               \* the counter of the progress-bar loop
    character_image_path,    \* arguments and locals of the running
    output_folder,           \*   create_act_two_generation call
    gen_config,
    output_path,
    wait_time,
    result,                  \* its return value: a path, or None
    outcome,                 \* how the last call ended
    response_status,         \* HTTP status of the answer to its POST, else 0
    posts,                   \* image path -> generation POSTs issued for it
    polls,                   \* status GETs issued for the current task
    inflight,                \* images whose task is created and not yet settled
    attempted,               \* the images handed to create_act_two_generation
    sleptAfter,              \* the images after which the loop slept the delay
    handed,                  \* the (image, output folder) pairs of the calls
    rootExists,              \* Path(root_directory).exists()
    scanned,                 \* the folders get_genx_image_files was called on
    guarded,                 \* the images check_existing_videos judged new
    returned,                \* what the run gave back to its caller
    status,                  \* the status the last poll of the task read
    runs,                    \* the rounds of the main loop of the UI so far
    payload,                 \* the character image and the ratio of the request
    probe                    \* a call of one of the pure functions

vars == <<config, images, rootListing, videos, driverExists,
          driver_video_data_uri, encodings, pc, folders, fi, genx_image_files, i,
          total_images, successful_generations, failed_generations,
          skipped_duplicates, processed, character_image_path, output_folder,
          gen_config, output_path, wait_time, result, outcome,
          response_status, posts, polls, inflight, attempted, sleptAfter,
          handed, rootExists, scanned, guarded, returned, status, runs,
          payload, probe>>

diskVars == <<config, images, rootListing, driverExists, rootExists, runs,
              probe>>
loopVars == <<folders, fi, genx_image_files, i>>
countVars == <<total_images, successful_generations, failed_generations,
               skipped_duplicates, processed>>
callVars == <<character_image_path, output_folder, gen_config, output_path>>
ghostVars == <<response_status, posts, polls, inflight, attempted, sleptAfter,
               handed, status, payload>>

\* max_wait and the sleep of one poll round, in seconds
max_wait == 600
poll_interval == 10

\* Path(''), the folder an empty output_folder setting resolves to
Cwd == <<".">>

AllPaths == {PathOf(f, FileUniverse[k].name) : f \in FolderNames, k \in FileIdx}

NoPath == [dir |-> None, name |-> None]

\* the number of files in the folders fs of the layout imgs
RECURSIVE CountFiles(_, _)
CountFiles(imgs, fs) ==
    IF fs = {} THEN 0
    ELSE LET f == CHOOSE g \in fs : TRUE
         IN Cardinality(imgs[f]) + CountFiles(imgs, fs \ {f})

\* the folder contents a run may start from
Layouts == {imgs \in [FolderNames -> SUBSET FileIdx] :
                CountFiles(imgs, FolderNames) <= MaxFiles}

\* iterdir() lists the subfolders in directory order, here not the sorted one
RootListings == {<< <<"b">>, <<"A">> >>}

\* (output_location, output_folder) as the setup wizard and the menu leave them
OutputSettings ==
    { [output_location |-> "centralized", output_folder |-> Downloads],
      [output_location |-> "co-located", output_folder |-> Cwd] }

Configs ==
    { [verbose_logging |-> v,
       output_location |-> o.output_location,
       output_folder |-> o.output_folder,
       delay_between_generations |-> d,
       image_search_pattern |-> PatternGenx,
       exact_match |-> FALSE,
       aspect_ratio_mode |-> a,
       fixed_aspect_ratio |-> AVAILABLE_RATIOS[1].name] :
         v \in BOOLEAN, o \in OutputSettings, d \in {0, 1},
         a \in {"smart", "fixed"} }

\* the arguments process_all_images passes on: no config at all
NoConfig == [aspect_ratio_mode |-> "smart",
             fixed_aspect_ratio |-> AVAILABLE_RATIOS[1].name]

\* no call of a pure function
NoProbe == [op |-> "none"]

\* no request has been sent by the running call
NoPayload == [width |-> 0, height |-> 0, ratio |-> None]

Init ==
    /\ config \in Configs
    /\ rootExists \in BOOLEAN
    /\ images \in (IF rootExists THEN Layouts ELSE {[f \in FolderNames |-> {}]})
    /\ scanned = {}
    /\ guarded = {}
    /\ returned = "pending"
    /\ status = "none"
    /\ runs = 1
    /\ payload = NoPayload
    /\ probe = NoProbe
    /\ rootListing \in RootListings
    /\ videos \in {{}, {OldVideo}}
    /\ driverExists \in BOOLEAN
    /\ driver_video_data_uri = FALSE
    /\ encodings = 0
    /\ pc = "start"
    /\ folders = <<>>
    /\ fi = 1
    /\ genx_image_files = <<>>
    /\ i = 1
    /\ total_images = 0
    /\ successful_generations = 0
    /\ failed_generations = 0
    /\ skipped_duplicates = 0
    /\ processed = 0
    /\ character_image_path = NoPath
    /\ output_folder = None
    /\ gen_config = NoConfig
    /\ output_path = NoPath
    /\ wait_time = 0
    /\ result = NoPath
    /\ outcome = "none"
    /\ response_status = 0
    /\ posts = [p \in AllPaths |-> 0]
    /\ polls = 0
    /\ inflight = {}
    /\ attempted = <<>>
    /\ sleptAfter = {}
    /\ handed = {}
\* the place in FileUniverse of the file behind an image path
FileIndex(path) == CHOOSE k \in FileIdx : FileUniverse[k].name = path.name

\* the file record behind an image path
FileOf(path) == FileUniverse[FileIndex(path)]

\* select_best_ratio on what analyze_image_aspect_ratio returns, for each file
\* of FileUniverse; at 0 for the aspect 1.0 it returns when PIL cannot open
\* the image
BestRatios ==
    [k \in {0} \cup FileIdx |->
        IF k = 0 THEN select_best_ratio(1, 1)
        ELSE select_best_ratio(FileUniverse[k].width, FileUniverse[k].height)]

\* resize_image_smart on each file of FileUniverse with its best ratio
ResizedImages ==
    [k \in FileIdx |->
        [pil_resizes \in BOOLEAN |->
            resize_image_smart(FileUniverse[k].width, FileUniverse[k].height,
                               BestRatios[k], pil_resizes)]]

\* ReturnPc with a failure ending the run instead of being counted
ReturnPcFatal(res) ==
    IF res = [dir |-> None, name |-> None] THEN "done"
    ELSE IF config.verbose_logging THEN "pai_result" ELSE "ui_result"

\* where the run goes on when create_act_two_generation returns res: the
\* caller's loop takes the result up, whatever it is
ReturnPc(res) == IF config.verbose_logging THEN "pai_result" ELSE "ui_result"

\* create_act_two_generation returns res; kind names how it ended; the locals
\* of the call are gone
GenReturn(res, kind) ==
    /\ result' = res
    /\ outcome' = kind
    /\ inflight' = {}
    /\ wait_time' = 0
    /\ polls' = 0
    /\ output_path' = NoPath
    /\ pc' = ReturnPc(res)

\* what reading the character image can do: PIL opens it; PIL rejects it but
\* the bytes can be read; the file cannot be read at all
ImageStates == {"ok", "corrupt", "unreadable"}

\* the answers to the POST: 200 with an id, 200 without one, another 2xx
\* status, an error status, no answer at all (requests raises)
PostResponses == {"200", "200_no_id", "201", "400", "raise"}

\* the answers to a status GET
PollReplies == {"RUNNING", "UNKNOWN", "FAILED", "SUCCEEDED", "SUCCEEDED_no_url",
                "SUCCEEDED_download_404", "SUCCEEDED_write_raises",
                "non200", "raise"}

\* the images of a folder for which the scan called check_existing_videos
\* and got the answer that the subject has no video
Judged(folder, files, vids, search_pattern, exact_match) ==
    LET checked(k) ==
            LET person_name ==
                    extract_name_from_genx_filename(FileUniverse[k].name)
            IN /\ IsImageFile(FileUniverse[k].name)
               /\ PatternMatches(FileUniverse[k].name, search_pattern,
                                 exact_match)
               /\ person_name # None
               /\ ~check_existing_videos(person_name, vids)
        kept == SelectSeq(Listing(files), checked)
    IN {PathOf(folder, FileUniverse[kept[j]].name) : j \in 1..Len(kept)}

\* what process_all_images hands to create_act_two_generation for an image:
\* the folder of the image or the output directory, and no config
pai_call(image_path) ==
    [output_folder |-> IF config.output_location = "co-located"
                       THEN image_path.dir
                       ELSE config.output_folder,
     config |-> NoConfig]

\* what the progress-bar loop hands to create_act_two_generation for an
\* image: config['output_folder'] and the whole config
ui_call(image_path) ==
    [output_folder |-> config.output_folder,
     config |-> [aspect_ratio_mode |-> config.aspect_ratio_mode,
                 fixed_aspect_ratio |-> config.fixed_aspect_ratio]]

\* RunwayAutomationUI.start_processing up to the processing loops: builds the
\* generator, lists the folders, and takes the verbose or the progress-bar path
start_processing ==
    /\ pc = "start"
    /\ driver_video_data_uri' = FALSE
    /\ encodings' = 0
    /\ LET listed == ui_get_all_folders(rootExists, rootListing, images,
                          config.image_search_pattern, config.exact_match)
       IN /\ scanned' = {listed[k] : k \in 1..Len(listed)}
          /\ IF config.verbose_logging
             THEN /\ pc' = "pai_entry"
                  /\ UNCHANGED folders
             ELSE /\ pc' = "ui_folder"
                  /\ folders' = listed
    /\ fi' = 1
    /\ processed' = 0
    /\ UNCHANGED <<diskVars, guarded, returned, videos, genx_image_files, i, total_images,
                   successful_generations, failed_generations,
                   skipped_duplicates, callVars, wait_time, result, outcome,
                   ghostVars>>

\* process_all_images up to its folder loop
process_all_images ==
    /\ pc = "pai_entry"
    /\ IF ~driverExists
       THEN /\ pc' = "done"
            /\ returned' = "None"
            /\ UNCHANGED folders
       ELSE LET all_folders == get_all_folders(rootExists, rootListing)
            IN /\ folders' = all_folders
               /\ pc' = IF all_folders = <<>> THEN "done" ELSE "pai_folder"
               /\ returned' = IF all_folders = <<>> THEN "None" ELSE returned
    /\ fi' = 1
    /\ total_images' = 0
    /\ successful_generations' = 0
    /\ failed_generations' = 0
    /\ skipped_duplicates' = 0
    /\ UNCHANGED <<diskVars, scanned, guarded, videos, driver_video_data_uri, encodings, genx_image_files, i,
                   processed, callVars, wait_time, result, outcome, ghostVars>>

\* process_all_images, head of the folder loop: scan the folder, count
pai_scan_folder ==
    /\ pc = "pai_folder"
    /\ fi <= Len(folders)
    /\ LET folder == folders[fi]
           found == get_genx_image_files(folder, images[folder], videos,
                                         PatternGenx, FALSE)
           skipped_in_folder == total_found(images[folder]) - Len(found)
       IN /\ total_images' = total_images + Len(found)
          /\ skipped_duplicates' = skipped_duplicates + skipped_in_folder
          /\ genx_image_files' = found
          /\ scanned' = scanned \cup {folder}
          /\ guarded' = guarded \cup Judged(folder, images[folder], videos,
                                              PatternGenx, FALSE)
          /\ i' = 1
          /\ IF found = <<>>
             THEN /\ fi' = fi + 1
                  /\ pc' = "pai_folder"
             ELSE /\ fi' = fi
                  /\ pc' = "pai_image"
    /\ UNCHANGED <<diskVars, returned, videos, driver_video_data_uri, encodings, folders,
                   successful_generations, failed_generations, processed,
                   callVars, wait_time, result, outcome, ghostVars>>

\* process_all_images, head of the image loop: pick the output folder and
\* call create_act_two_generation without a config
pai_generate ==
    /\ pc = "pai_image"
    /\ LET image_path == genx_image_files[i]
           specific_output == pai_call(image_path).output_folder
       IN /\ character_image_path' = image_path
          /\ output_folder' = specific_output
          /\ attempted' = Append(attempted, image_path)
          /\ handed' = handed \cup {<<image_path, specific_output>>}
    /\ gen_config' = pai_call(genx_image_files[i]).config
    /\ output_path' = NoPath
    /\ pc' = "gen_entry"
    /\ UNCHANGED <<diskVars, scanned, guarded, returned, videos, driver_video_data_uri, encodings, loopVars, countVars,
                   wait_time, result, outcome, response_status, posts, polls,
                   inflight, sleptAfter, status, payload>>

\* process_all_images, rest of the image loop: count the result, sleep the
\* delay unless this was the last image of the folder, go on
pai_result ==
    /\ pc = "pai_result"
    /\ result' = NoPath
    /\ outcome' = "none"
    /\ response_status' = 0
    /\ status' = "none"
    /\ payload' = NoPayload
    /\ IF result # NoPath
       THEN /\ successful_generations' = successful_generations + 1
            /\ UNCHANGED failed_generations
       ELSE /\ failed_generations' = failed_generations + 1
            /\ UNCHANGED successful_generations
    /\ IF i < Len(genx_image_files) /\ config.delay_between_generations > 0
       THEN sleptAfter' = sleptAfter \cup {character_image_path}
       ELSE UNCHANGED sleptAfter
    /\ IF i < Len(genx_image_files)
       THEN /\ i' = i + 1
            /\ fi' = fi
            /\ pc' = "pai_image"
       ELSE /\ i' = i
            /\ fi' = fi + 1
            /\ pc' = "pai_folder"
    /\ UNCHANGED <<diskVars, scanned, guarded, returned, videos, driver_video_data_uri, encodings, folders,
                   genx_image_files, total_images, skipped_duplicates,
                   processed, callVars, wait_time, posts, polls, inflight,
                   attempted, handed>>

\* process_all_images, after the folder loop: the final summary
pai_summary ==
    /\ pc = "pai_folder"
    /\ fi > Len(folders)
    /\ pc' = "done"
    /\ returned' = "None"
    /\ UNCHANGED <<diskVars, scanned, guarded, videos, driver_video_data_uri, encodings, loopVars, countVars,
                   callVars, wait_time, result, outcome, ghostVars>>

\* HTTP status of an answer to the POST; 0 when there is no answer
StatusOf(response) ==
    IF response \in {"200", "200_no_id"} THEN 200
    ELSE IF response = "201" THEN 201
    ELSE IF response = "400" THEN 400
    ELSE 0

\* EncodesNow with the driver video encoded anew for every request
EncodesAlways(cached) == TRUE

\* is the driver video to be read and encoded: only while nothing is cached
EncodesNow(cached) == ~cached

\* Prepare without the checks of the driver video and of the two encodings
PrepareUnchecked(video_encodes, image_state) ==
    IF gen_config.aspect_ratio_mode # "smart" THEN "Exception" ELSE "submit"

\* create_act_two_generation before the POST: "submit" when the request is
\* to be sent, else the failure it returns None with
Prepare(video_encodes, image_state) ==
    IF ~driverExists THEN "MissingReferenceAsset"
    ELSE IF EncodesNow(driver_video_data_uri) /\ ~video_encodes
    THEN "EncodingError"
    ELSE IF gen_config.aspect_ratio_mode # "smart"
    THEN "Exception"    \* AVAILABLE_RATIOS[fixed_ratio] has no "name": KeyError
    ELSE IF image_state = "unreadable" THEN "EncodingError"
    ELSE "submit"

\* the ratio the request is built for
TargetRatio(image_state) ==
    IF image_state = "ok"
    THEN BestRatios[FileIndex(character_image_path)]
    ELSE BestRatios[0]    \* analyze_image_aspect_ratio failed

\* the image at resized_image_path, which the request carries: the result of
\* resize_image_smart, which is the original when PIL cannot open the image
CharacterImage(image_state, pil_resizes) ==
    LET img == FileOf(character_image_path)
    IN IF image_state = "ok"
       THEN ResizedImages[FileIndex(character_image_path)][pil_resizes]
       ELSE [width |-> img.width, height |-> img.height]

\* the payload of the request: the character image and "ratio"
Payload(image_state, pil_resizes) ==
    [width |-> CharacterImage(image_state, pil_resizes).width,
     height |-> CharacterImage(image_state, pil_resizes).height,
     ratio |-> TargetRatio(image_state).api_value]

\* how the answer to the POST is taken: "poll" when the task id is kept and
\* polling starts, else the failure
Submitted(response) ==
    IF response = "raise" THEN "Exception"
    ELSE IF StatusOf(response) # 200 THEN "SubmissionError"
    ELSE IF response = "200_no_id" THEN "Exception"
    ELSE "poll"

\* AfterSubmitPc with the call returning once the task is created, the
\* polling left to run behind the loop
AfterSubmitPcDetached ==
    IF config.verbose_logging THEN "pai_result" ELSE "ui_result"

\* where create_act_two_generation goes once the task is created
AfterSubmitPc == "gen_poll"

\* create_act_two_generation from its entry to the answer to the POST
gen_submit ==
    /\ pc = "gen_entry"
    /\ \E video_encodes \in BOOLEAN, image_state \in ImageStates,
          pil_resizes \in BOOLEAN, response \in PostResponses :
        LET prepared == Prepare(video_encodes, image_state)
            reads == driverExists /\ EncodesNow(driver_video_data_uri)
        IN /\ driver_video_data_uri' =
                  (IF reads THEN video_encodes ELSE driver_video_data_uri)
           /\ encodings' =
                  (IF reads /\ video_encodes THEN encodings + 1 ELSE encodings)
           /\ IF prepared # "submit"
              THEN /\ GenReturn(NoPath, prepared)
                   /\ UNCHANGED <<posts, response_status, payload>>
              ELSE /\ posts' = [posts EXCEPT ![character_image_path] = @ + 1]
                   /\ response_status' = StatusOf(response)
                   /\ payload' = Payload(image_state, pil_resizes)
                   /\ IF Submitted(response) = "poll"
                      THEN /\ output_path' = OutputPath(output_folder,
                                  character_image_path.name,
                                  TargetRatio(image_state))
                           /\ wait_time' = 0
                           /\ polls' = 0
                           /\ inflight' = {character_image_path}
                           /\ pc' = AfterSubmitPc
                           /\ UNCHANGED <<result, outcome>>
                      ELSE GenReturn(NoPath, Submitted(response))
    /\ UNCHANGED <<diskVars, scanned, guarded, returned, videos, loopVars, countVars, character_image_path,
                   output_folder, gen_config, attempted, sleptAfter, handed,
                   status>>

\* Elapsed with the loop forgetting to add the sleep to wait_time
ElapsedStuck(w) == w

\* wait_time after one more round of the polling loop
Elapsed(w) == w + poll_interval

\* status_data.get('status', 'UNKNOWN') of a reply; without a reply of status
\* 200 the variable keeps its value
StatusRead(reply, before) ==
    IF reply \in {"non200", "raise"} THEN before
    ELSE IF reply \in {"SUCCEEDED", "SUCCEEDED_no_url",
                       "SUCCEEDED_download_404", "SUCCEEDED_write_raises"}
    THEN "SUCCEEDED"
    ELSE reply

\* EndsAsFailed with every status the code does not know ending the polling
EndsAsFailedOrUnknown(reply) == reply \in {"FAILED", "UNKNOWN"}

\* elif status == 'FAILED': besides SUCCEEDED the one status that ends the
\* polling
EndsAsFailed(reply) == reply = "FAILED"

\* create_act_two_generation, one round of the polling loop: sleep, ask for
\* the status, act on it
gen_poll ==
    /\ pc = "gen_poll"
    /\ wait_time < max_wait
    /\ \E reply \in PollReplies :
        /\ status' = StatusRead(reply, status)
        /\ IF reply = "non200"
           THEN /\ GenReturn(NoPath, "PollError")
                /\ UNCHANGED videos
           ELSE IF reply = "raise"
           THEN /\ GenReturn(NoPath, "Exception")
                /\ UNCHANGED videos
           ELSE IF reply = "SUCCEEDED"
           THEN /\ videos' = videos \cup {output_path}
                /\ GenReturn(output_path, "ok")
           ELSE IF reply = "SUCCEEDED_no_url"
           THEN /\ GenReturn(NoPath, "MissingOutput")
                /\ UNCHANGED videos
           ELSE IF reply = "SUCCEEDED_download_404"
           THEN /\ GenReturn(NoPath, "DownloadError")
                /\ UNCHANGED videos
           ELSE IF reply = "SUCCEEDED_write_raises"
           THEN /\ GenReturn(NoPath, "FilesystemError")
                /\ UNCHANGED videos
           ELSE IF EndsAsFailed(reply)
           THEN /\ GenReturn(NoPath, "RemoteGenerationFailed")
                /\ UNCHANGED videos
           ELSE \* any other status: the loop goes round again
                /\ wait_time' = Elapsed(wait_time)
                /\ polls' = polls + 1
                /\ UNCHANGED <<videos, result, outcome, inflight, output_path,
                               pc>>
    /\ UNCHANGED <<diskVars, scanned, guarded, returned, driver_video_data_uri, encodings, loopVars, countVars,
                   character_image_path, output_folder, gen_config,
                   response_status, posts, attempted, sleptAfter, handed,
                   payload>>

\* create_act_two_generation, after the polling loop: timed out
gen_timeout ==
    /\ pc = "gen_poll"
    /\ ~(wait_time < max_wait)
    /\ GenReturn(NoPath, "Timeout")
    /\ UNCHANGED <<diskVars, scanned, guarded, returned, videos, driver_video_data_uri, encodings, loopVars, countVars,
                   character_image_path, output_folder, gen_config,
                   response_status, posts, attempted, sleptAfter, handed,
                   status, payload>>

\* start_processing, progress-bar loop, head of the folder loop
ui_scan_folder ==
    /\ pc = "ui_folder"
    /\ fi <= Len(folders)
    /\ LET folder == folders[fi]
           genx_images == get_genx_image_files(folder, images[folder], videos,
                              config.image_search_pattern, config.exact_match)
       IN /\ genx_image_files' = genx_images
          /\ scanned' = scanned \cup {folder}
          /\ guarded' = guarded \cup Judged(folder, images[folder], videos,
                              config.image_search_pattern, config.exact_match)
          /\ i' = 1
          /\ IF genx_images = <<>>
             THEN /\ fi' = fi + 1
                  /\ pc' = "ui_folder"
             ELSE /\ fi' = fi
                  /\ pc' = "ui_image"
    /\ UNCHANGED <<diskVars, returned, videos, driver_video_data_uri, encodings, folders, countVars,
                   callVars, wait_time, result, outcome, ghostVars>>

\* start_processing, progress-bar loop, head of the image loop: the output
\* folder is config['output_folder'], the whole config is passed on
ui_generate ==
    /\ pc = "ui_image"
    /\ LET image_path == genx_image_files[i]
           specific_output == ui_call(image_path).output_folder
       IN /\ character_image_path' = image_path
          /\ output_folder' = specific_output
          /\ attempted' = Append(attempted, image_path)
          /\ handed' = handed \cup {<<image_path, specific_output>>}
    /\ gen_config' = ui_call(genx_image_files[i]).config
    /\ output_path' = NoPath
    /\ pc' = "gen_entry"
    /\ UNCHANGED <<diskVars, scanned, guarded, returned, videos, driver_video_data_uri, encodings, loopVars, countVars,
                   wait_time, result, outcome, response_status, posts, polls,
                   inflight, sleptAfter, status, payload>>

\* start_processing, progress-bar loop, rest of the image loop: count the
\* image, sleep the delay, go on
ui_result ==
    /\ pc = "ui_result"
    /\ result' = NoPath
    /\ outcome' = "none"
    /\ response_status' = 0
    /\ status' = "none"
    /\ payload' = NoPayload
    /\ processed' = processed + 1
    /\ IF config.delay_between_generations > 0
       THEN sleptAfter' = sleptAfter \cup {character_image_path}
       ELSE UNCHANGED sleptAfter
    /\ IF i < Len(genx_image_files)
       THEN /\ i' = i + 1
            /\ fi' = fi
            /\ pc' = "ui_image"
       ELSE /\ i' = i
            /\ fi' = fi + 1
            /\ pc' = "ui_folder"
    /\ UNCHANGED <<diskVars, scanned, guarded, returned, videos, driver_video_data_uri, encodings, folders,
                   genx_image_files, total_images, successful_generations,
                   failed_generations, skipped_duplicates, callVars, wait_time,
                   posts, polls, inflight, attempted, handed>>

\* start_processing, progress-bar loop, after the folder loop
ui_finish ==
    /\ pc = "ui_folder"
    /\ fi > Len(folders)
    /\ pc' = "done"
    /\ returned' = "None"
    /\ UNCHANGED <<diskVars, scanned, guarded, videos, driver_video_data_uri, encodings, loopVars, countVars,
                   callVars, wait_time, result, outcome, ghostVars>>

Next ==
    \/ start_processing
    \/ process_all_images
    \/ pai_scan_folder
    \/ pai_generate
    \/ pai_result
    \/ pai_summary
    \/ gen_submit
    \/ gen_poll
    \/ gen_timeout
    \/ ui_scan_folder
    \/ ui_generate
    \/ ui_result
    \/ ui_finish

Spec == Init /\ [][Next]_vars

\* at most this many rounds of the main loop of the UI
MaxRuns == 2

\* RunwayAutomationUI.run: start_processing has returned, the menu is shown
\* and left with the same settings, and the next round starts on the disk as
\* the last one left it
run_again ==
    /\ pc = "done"
    /\ runs < MaxRuns
    /\ runs' = runs + 1
    /\ pc' = "start"
    /\ driver_video_data_uri' = FALSE
    /\ encodings' = 0
    /\ folders' = <<>>
    /\ fi' = 1
    /\ genx_image_files' = <<>>
    /\ i' = 1
    /\ total_images' = 0
    /\ successful_generations' = 0
    /\ failed_generations' = 0
    /\ skipped_duplicates' = 0
    /\ processed' = 0
    /\ character_image_path' = NoPath
    /\ output_folder' = None
    /\ gen_config' = NoConfig
    /\ output_path' = NoPath
    /\ wait_time' = 0
    /\ result' = NoPath
    /\ outcome' = "none"
    /\ response_status' = 0
    /\ posts' = [p \in AllPaths |-> 0]
    /\ polls' = 0
    /\ inflight' = {}
    /\ attempted' = <<>>
    /\ sleptAfter' = {}
    /\ handed' = {}
    /\ scanned' = {}
    /\ guarded' = {}
    /\ returned' = "pending"
    /\ status' = "none"
    /\ payload' = NoPayload
    /\ UNCHANGED <<config, images, rootListing, videos, driverExists,
                   rootExists, probe>>

RerunNext ==
    \/ Next
    \/ run_again

\* the batch run, started again from the menu
RerunSpec == Init /\ [][RerunNext]_vars
(* Per-image failures and the counters                                     *)

\* the kinds of failure create_act_two_generation returns None with
FailureKinds == {"MissingReferenceAsset", "EncodingError", "SubmissionError",
                 "PollError", "RemoteGenerationFailed", "MissingOutput",
                 "DownloadError", "FilesystemError", "Timeout", "Exception"}

\* the calls of create_act_two_generation that have returned and been counted
Counted ==
    Len(attempted) - (IF pc \in {"gen_entry", "gen_poll", "pai_result",
                                 "ui_result"} THEN 1 ELSE 0)

\* a call has returned and its caller has not yet taken the result up
Returned == pc \in {"pai_result", "ui_result"}

\* C1, as a state predicate: a call that ends in any failure returns None to
\* the loop that made it (the run is not over), and in process_all_images
\* succeeded + failed is the number of calls that have returned and been
\* counted, so at the end the number of images attempted
C1_CountersMatchAttempts ==
    /\ outcome \in FailureKinds => (result = NoPath /\ Returned)
    /\ outcome = "ok" => (result # NoPath /\ Returned)
    /\ config.verbose_logging =>
           successful_generations + failed_generations = Counted
    /\ ~config.verbose_logging => processed = Counted
    /\ pc = "done" => Counted = Len(attempted)

\* C1, as a step property: taking up a failed result adds one to failed and
\* nothing to succeeded, and the loop goes on to the next image of the
\* folder, or to the next folder when there is none
C1_FailureStep ==
    [][pc = "pai_result" /\ result = NoPath =>
          /\ failed_generations' = failed_generations + 1
          /\ successful_generations' = successful_generations
          /\ IF i < Len(genx_image_files)
             THEN pc' = "pai_image" /\ i' = i + 1 /\ fi' = fi
             ELSE pc' = "pai_folder" /\ fi' = fi + 1]_vars

\* C1: a failure of any kind while generating one image adds one to failed
\* only, never stops the run, the next eligible image is still attempted, and
\* at the end succeeded + failed is the number of images attempted
C1_FailureNeverFatal == []C1_CountersMatchAttempts /\ C1_FailureStep

\* a run that went on after a failure: it ended with two images attempted, one
\* failed and one succeeded
C1_Witness ==
    /\ pc = "done"
    /\ config.verbose_logging
    /\ failed_generations = 1
    /\ successful_generations = 1
    /\ Len(attempted) = 2
(* The polling loop                                                        *)

\* the rounds of the polling loop that fit into max_wait
MaxPolls == max_wait \div poll_interval

\* C2, the bound: while a task is polled, wait_time is the time slept so far,
\* one poll_interval per status request, and there are at most MaxPolls
\* requests
C2_PollBound ==
    pc = "gen_poll" =>
        /\ wait_time = poll_interval * polls
        /\ polls <= MaxPolls
        /\ wait_time <= max_wait

\* C2, the steps: a status request is sent only while wait_time < max_wait;
\* once wait_time has reached max_wait the call returns None as a Timeout,
\* and the loop that made the call goes on with the next image or folder
C2_TimeoutStep ==
    [][/\ (pc = "gen_poll" /\ wait_time < max_wait /\ pc' = "gen_poll" =>
               wait_time' = wait_time + poll_interval /\ polls' = polls + 1)
       /\ (pc = "gen_poll" /\ ~(wait_time < max_wait) =>
               /\ outcome' = "Timeout"
               /\ result' = NoPath
               /\ posts' = posts
               /\ videos' = videos
               /\ Returned')
       /\ (outcome' = "Timeout" /\ outcome # "Timeout" =>
               polls = MaxPolls /\ wait_time = max_wait)
       /\ (outcome = "Timeout" =>
               pc' \in {"pai_image", "pai_folder", "ui_image", "ui_folder"})
      ]_vars

\* C2, termination: a call that is polling leaves the polling loop
C2_LeavesLoop == (pc = "gen_poll") ~> (pc # "gen_poll")

\* C2: for a task that never becomes SUCCEEDED or FAILED the call polls every
\* 10 seconds, sends at most 60 status requests (600 seconds), then returns a
\* failure, and the batch goes on to the next image
C2_PollingTerminates == []C2_PollBound /\ C2_TimeoutStep /\ C2_LeavesLoop

\* a call that has just timed out after MaxPolls status requests
C2_Witness ==
    /\ outcome = "Timeout"
    /\ result = NoPath
    /\ Returned
    /\ Len(attempted) >= 1

\* the run takes a step whenever it can: the loops are one thread that
\* nothing suspends
FairSpec == Spec /\ WF_vars(Next)
(* The artifact of a task                                                  *)

\* the ways a call ends once a poll has returned SUCCEEDED
SucceededOutcomes == {"ok", "MissingOutput", "DownloadError", "FilesystemError"}

\* path is outputFolder/<imageStem>_act_two_<ratio>.mp4 for a catalog ratio
IsOutputPathOf(path, folder, image) ==
    /\ path.dir = folder
    /\ \E k \in 1..Len(AVAILABLE_RATIOS) :
           path.name = PathStem(image.name) \o ActTwo
                           \o ReplaceColon(AVAILABLE_RATIOS[k].name) \o DotMp4

C3_ArtifactOfOk ==
    /\ outcome = "ok" =>
           /\ result \in videos
           /\ IsOutputPathOf(result, output_folder, character_image_path)
    /\ outcome \in SucceededOutcomes \ {"ok"} => result = NoPath

\* C3 amended, the steps: the only step that writes a file is the poll that
\* ends "ok", and it writes exactly the file it returns
C3_WriteStep ==
    [][IF pc = "gen_poll" /\ outcome' = "ok"
       THEN videos' = videos \cup {result'}
       ELSE videos' = videos]_vars

C4_Any2xxAccepted ==
    /\ response_status \in 200..299 => outcome # "SubmissionError"
    /\ response_status \in 300..599 => outcome = "SubmissionError"

\* all that is posted for the images of ps
RECURSIVE TotalPosts(_)
TotalPosts(ps) ==
    IF ps = {} THEN 0
    ELSE LET p == CHOOSE q \in ps : TRUE
         IN posts[p] + TotalPosts(ps \ {p})

\* C5, the states: no image has more than one POST, no image is attempted
\* twice, and there are no more POSTs than calls
C5_AtMostOnePost ==
    /\ \A p \in AllPaths : posts[p] <= 1
    /\ \A j, k \in 1..Len(attempted) : attempted[j] = attempted[k] => j = k
    /\ TotalPosts(AllPaths) <= Len(attempted)

\* C5, the steps: a POST is sent only by the entry part of a call, one for
\* the image of the call; a poll or a return sends none
C5_PostStep ==
    [][posts' # posts =>
          /\ pc = "gen_entry"
          /\ posts' = [posts EXCEPT ![character_image_path] = @ + 1]]_vars

\* C5: no retries: one call sends at most one generation POST, a failed
\* submission or poll is never repeated, and within one run every eligible
\* image is submitted at most once
C5_NoRetries == []C5_AtMostOnePost /\ C5_PostStep

\* a run that ended with a failed image that was posted once
C5_Witness ==
    /\ pc = "done"
    /\ \E p \in AllPaths : posts[p] = 1
    /\ Len(attempted) = 2
    /\ TotalPosts(AllPaths) = 2

\* C6, the states: with the driver video missing no request is ever sent,
\* and a call that ended with a missing asset or an encoding failure has no
\* answer to a POST
C6_NoRequestState ==
    /\ ~driverExists => TotalPosts(AllPaths) = 0
    /\ outcome \in {"MissingReferenceAsset", "EncodingError"} =>
           response_status = 0 /\ result = NoPath

\* C6, the steps: the call that ends with a missing asset or an encoding
\* failure sends no POST and writes no file
C6_NoRequestStep ==
    [][outcome' \in {"MissingReferenceAsset", "EncodingError"}
          /\ outcome' # outcome =>
              posts' = posts /\ videos' = videos /\ inflight' = {}]_vars

\* C6: if the driver video does not exist, or the driver video or the
\* character image cannot be encoded, the call fails for that image without
\* sending any request
C6_NoRequestWithoutAssets == []C6_NoRequestState /\ C6_NoRequestStep

\* a call that returned because the driver video is missing
C6_Witness ==
    /\ outcome = "MissingReferenceAsset"
    /\ ~driverExists
    /\ Returned

\* C7, the states: at most one task is in flight, and only while its call
\* is polling
C7_OneInFlight ==
    /\ Cardinality(inflight) <= 1
    /\ inflight # {} => (pc = "gen_poll" /\ inflight = {character_image_path})

\* C7, the steps: a request is sent only when no task is in flight
C7_PostStep == [][posts' # posts => inflight = {}]_vars

\* C7: processing is strictly sequential: at most one generation task is in
\* flight, and the submit, the polls and the download (or failure) of an
\* image are over before any request for the next image is sent
C7_Sequential == []C7_OneInFlight /\ C7_PostStep

\* the second image of a run is being polled, the first one is settled
C7_Witness ==
    /\ pc = "gen_poll"
    /\ Len(attempted) = 2
    /\ inflight = {attempted[2]}
    /\ posts[attempted[1]] = 1

(* The delay between images                                                *)

\* the images attempted, but for the last one
AllButLast == {attempted[k] : k \in 1..(Len(attempted) - 1)}

\* C8 as it stands: with delaySeconds > 0 the run sleeps after every image
\* but the last one of the whole batch, and never with delaySeconds <= 0
C8_SleepAfterAllButLast ==
    pc = "done" =>
        sleptAfter = (IF config.delay_between_generations > 0
                      THEN AllButLast ELSE {})

(* The output folder                                                       *)

\* C9 as it stands: the output folder handed to create_act_two_generation is
\* the parent folder of the image in co-located mode and the configured
\* output root in centralized mode, on every processing path
C9_OutputFolderByMode ==
    \A h \in handed :
        h[2] = (IF config.output_location = "co-located" THEN h[1].dir
                ELSE config.output_folder)

(* The summary                                                             *)

\* the images of a folder that match the pattern 'genx'
MatchingImages(files) ==
    {k \in files : /\ ToLower(PathSuffix(FileUniverse[k].name))
                          \in image_extensions
                   /\ Contains(PatternGenx, ToLower(FileUniverse[k].name))}

\* the images of folder f that were attempted
AttemptedIn(f) == {k \in 1..Len(attempted) : attempted[k].dir = f}

\* the files matching the pattern minus the eligible ones, over the folders fs
RECURSIVE SkippedIn(_)
SkippedIn(fs) ==
    IF fs = {} THEN 0
    ELSE LET f == CHOOSE g \in fs : TRUE
         IN Cardinality(MatchingImages(images[f])) - Cardinality(AttemptedIn(f))
                + SkippedIn(fs \ {f})

\* the videos that were on disk before the run
InitialVideos == videos \cap {OldVideo}

\* each of the two folders holds one matching image, the two are different
\* images, and neither has a video yet
OneEligibleEach ==
    /\ \A f \in FolderNames : Cardinality(MatchingImages(images[f])) = 1
    /\ \A f, g \in FolderNames :
           f # g => MatchingImages(images[f]) # MatchingImages(images[g])
    /\ \A f \in FolderNames : \A k \in MatchingImages(images[f]) :
           LET person_name ==
                   extract_name_from_genx_filename(FileUniverse[k].name)
           IN person_name # None =>
                  ~check_existing_videos(person_name, InitialVideos)

\* C10: at the end of process_all_images duplicatesSkipped is the sum over
\* the folders of (files matching the pattern - eligible files), it is never
\* negative, and for two folders with one eligible image each and delay 0 the
\* summary is totalDiscovered = 2, duplicatesSkipped = 0, succeeded + failed = 2
C10_DuplicatesSkipped ==
    config.verbose_logging =>
        /\ skipped_duplicates >= 0
        /\ pc = "done" /\ driverExists =>
               /\ skipped_duplicates = SkippedIn(FolderNames)
               /\ total_images = Len(attempted)
        /\ (/\ pc = "done"
            /\ driverExists
            /\ OneEligibleEach
            /\ config.delay_between_generations = 0) =>
               /\ total_images = 2
               /\ skipped_duplicates = 0
               /\ successful_generations + failed_generations = 2

\* a run over two folders with one eligible image each has ended, and another
\* run has ended with a duplicate skipped
C10_Witness ==
    /\ pc = "done"
    /\ config.verbose_logging
    /\ driverExists
    /\ OneEligibleEach
    /\ config.delay_between_generations = 0
    /\ total_images = 2
(* The pure functions, called one at a time                                *)

\* at most this many files on disk when a pure function is called
MaxProbeFiles == 2

\* the calls: a file name, a search pattern, the exact-match flag, a subject
\* and the files on disk
ProbeInputs ==
    { [op |-> "input", filename |-> f, pattern |-> p, exact_match |-> e,
       name |-> n, vids |-> v, width |-> 0, height |-> 0, ratio |-> 1,
       out |-> None] :
          f \in ProbeNames, p \in ProbePatterns, e \in BOOLEAN,
          n \in ProbeSubjects,
          v \in {w \in SUBSET ProbeFiles : Cardinality(w) <= MaxProbeFiles} }

\* every image up to this many pixels a side is handed to the pure functions
MaxSide == 4

\* the sizes of the images handed to the pure functions: the small ones, one
\* of the aspect of each catalog entry, the ones half way between two
\* entries, the ones of the batch run, and long and flat ones
ImageSizes ==
    ((1..MaxSide) \X (1..MaxSide))
        \cup {<<AVAILABLE_RATIOS[k].aspectNum, AVAILABLE_RATIOS[k].aspectDen>> :
                  k \in 1..Len(AVAILABLE_RATIOS)}
        \cup {<<7, 8>>, <<21, 32>>, <<7, 6>>, <<14, 9>>, <<37, 18>>, <<35, 30>>}
        \cup {<<FileUniverse[k].width, FileUniverse[k].height>> : k \in FileIdx}
        \cup {<<1, 100>>, <<100, 1>>, <<35, 100>>, <<1104, 832>>}

\* the calls on an image: its size and the catalog entry to resize it to
ImageInputs ==
    { [op |-> "image", filename |-> NameJaneSpaces, pattern |-> PatternGenx,
       exact_match |-> FALSE, name |-> SubjectJaneDoe, vids |-> {},
       width |-> s[1], height |-> s[2], ratio |-> r, out |-> None] :
          s \in ImageSizes, r \in 1..Len(AVAILABLE_RATIOS) }

\* the configuration load_config starts from
DefaultConfig ==
    [verbose_logging |-> FALSE,
     output_location |-> "centralized",
     output_folder |-> Downloads,
     delay_between_generations |-> 1,
     image_search_pattern |-> PatternGenx,
     exact_match |-> FALSE,
     aspect_ratio_mode |-> "smart",
     fixed_aspect_ratio |-> AVAILABLE_RATIOS[1].name]

\* no run is under way
NoRun ==
    /\ config = DefaultConfig
    /\ rootExists = TRUE
    /\ images = [f \in FolderNames |-> {}]
    /\ rootListing = <<>>
    /\ videos = {}
    /\ driverExists = TRUE
    /\ driver_video_data_uri = FALSE
    /\ encodings = 0
    /\ pc = "idle"
    /\ folders = <<>>
    /\ fi = 1
    /\ genx_image_files = <<>>
    /\ i = 1
    /\ total_images = 0
    /\ successful_generations = 0
    /\ failed_generations = 0
    /\ skipped_duplicates = 0
    /\ processed = 0
    /\ character_image_path = NoPath
    /\ output_folder = None
    /\ gen_config = NoConfig
    /\ output_path = NoPath
    /\ wait_time = 0
    /\ result = NoPath
    /\ outcome = "none"
    /\ response_status = 0
    /\ posts = [p \in AllPaths |-> 0]
    /\ polls = 0
    /\ inflight = {}
    /\ attempted = <<>>
    /\ sleptAfter = {}
    /\ handed = {}
    /\ scanned = {}
    /\ guarded = {}
    /\ returned = "pending"
    /\ status = "none"
    /\ runs = 1
    /\ payload = NoPayload

PureInit == NoRun /\ probe \in ProbeInputs \cup ImageInputs

runVars == <<config, images, rootListing, videos, driverExists,
             driver_video_data_uri, encodings, pc, folders, fi, genx_image_files, i,
             total_images, successful_generations, failed_generations,
             skipped_duplicates, processed, character_image_path,
             output_folder, gen_config, output_path, wait_time, result,
             outcome, response_status, posts, polls, inflight, attempted,
             sleptAfter, handed, rootExists, scanned, guarded, returned,
             status, runs, payload>>

\* a call of extract_name_from_genx_filename
probe_extract_name ==
    /\ probe.op = "input"
    /\ probe' = [probe EXCEPT
                    !.op = "extract_name_from_genx_filename",
                    !.out = extract_name_from_genx_filename(probe.filename)]
    /\ UNCHANGED runVars

\* a call of check_existing_videos
probe_check_existing_videos ==
    /\ probe.op = "input"
    /\ probe' = [probe EXCEPT
                    !.op = "check_existing_videos",
                    !.out = check_existing_videos(probe.name, probe.vids)]
    /\ UNCHANGED runVars

\* a call of GUISelectors._matches_pattern
probe_matches_pattern ==
    /\ probe.op = "input"
    /\ probe' = [probe EXCEPT
                    !.op = "_matches_pattern",
                    !.out = matches_pattern(probe.filename, probe.pattern,
                                            probe.exact_match)]
    /\ UNCHANGED runVars

\* the pattern test of get_genx_image_files on one file name
probe_pattern_test ==
    /\ probe.op = "input"
    /\ probe' = [probe EXCEPT
                    !.op = "pattern_test",
                    !.out = PatternMatches(probe.filename, probe.pattern,
                                           probe.exact_match)]
    /\ UNCHANGED runVars

\* the two exact-match rules on the same file name and pattern: the one that
\* counts the images in the folder picker, the one that selects them in the scan
probe_exact_rules ==
    /\ probe.op = "input"
    /\ probe.exact_match
    /\ probe' = [probe EXCEPT
                    !.op = "exact_rules",
                    !.out = [picker |-> matches_pattern(probe.filename,
                                            probe.pattern, TRUE),
                             scan |-> PatternMatches(probe.filename,
                                          probe.pattern, TRUE)]]
    /\ UNCHANGED runVars

\* a call of select_best_ratio with the aspect of the image
probe_select_best_ratio ==
    /\ probe.op = "image"
    /\ probe' = [probe EXCEPT
                    !.op = "select_best_ratio",
                    !.out = select_best_ratio(probe.width, probe.height)]
    /\ UNCHANGED runVars

\* a call of resize_image_smart with the image and a catalog entry
probe_resize_image_smart ==
    /\ probe.op = "image"
    /\ \E pil_resizes \in BOOLEAN :
           probe' = [probe EXCEPT
                        !.op = "resize_image_smart",
                        !.out = [box |-> CropBox(probe.width, probe.height,
                                             AVAILABLE_RATIOS[probe.ratio]),
                                 size |-> resize_image_smart(probe.width,
                                              probe.height,
                                              AVAILABLE_RATIOS[probe.ratio],
                                              pil_resizes)]]
    /\ UNCHANGED runVars

\* get_genx_image_files on a folder that holds the one file: the first scan,
\* and the scan after a video has appeared
probe_scan ==
    /\ probe.op \in {"input", "video_appeared"}
    /\ probe' = [probe EXCEPT
                    !.op = IF probe.op = "input" THEN "scan" ELSE "rescan",
                    !.out = IF Eligible(probe.filename, probe.vids,
                                        probe.pattern, probe.exact_match)
                            THEN <<probe.filename>> ELSE <<>>]
    /\ UNCHANGED runVars

\* the video generated for the listed image is written to the Downloads folder
probe_video_appears ==
    /\ probe.op = "scan"
    /\ probe.out # <<>>
    /\ probe' = [probe EXCEPT
                    !.op = "video_appeared",
                    !.vids = @ \cup {OutputPath(Downloads, probe.filename,
                                                AVAILABLE_RATIOS[1])}]
    /\ UNCHANGED runVars

PureNext ==
    \/ probe_extract_name
    \/ probe_check_existing_videos
    \/ probe_matches_pattern
    \/ probe_pattern_test
    \/ probe_exact_rules
    \/ probe_select_best_ratio
    \/ probe_resize_image_smart
    \/ probe_scan
    \/ probe_video_appears

PureSpec == PureInit /\ [][PureNext]_vars

(* Root-level conditions                                                   *)

\* C11 as it stands: when the root directory does not exist the run fails
\* fast with an InvalidRoot error signalled to its caller, no folder is
\* scanned and no request is sent
C11_InvalidRootSignalled ==
    ~rootExists =>
        /\ scanned = {}
        /\ attempted = <<>>
        /\ TotalPosts(AllPaths) = 0
        /\ pc = "done" => returned = "InvalidRoot"

\* C12 as it stands: a missing reference video aborts the batch with a fatal
\* signal to the caller before any folder is scanned and before any image is
\* attempted, and is not counted as a failure of each image
C12_MissingVideoIsRootLevel ==
    ~driverExists =>
        /\ scanned = {}
        /\ attempted = <<>>
        /\ failed_generations = 0
        /\ processed = 0
        /\ pc = "done" => returned = "MissingReferenceAsset"
(* The duplicate guard in a run                                            *)

\* the images a generation request was sent for
Posted == {p \in AllPaths : posts[p] > 0}

\* C13 as it stands: every image a request is submitted for has passed the
\* pattern match and the duplicate check before that request; no request is
\* submitted for an image that skipped the duplicate check
C13_Original ==
    \A p \in Posted :
        /\ Contains(ToLower(config.image_search_pattern), ToLower(p.name))
        /\ p \in guarded

\* C13 amended, the states: an image a request was sent for matches the
\* pattern, and if its name yields a subject the duplicate check judged that
\* subject new at the scan of its folder
C13_GuardedIfSubject ==
    \A p \in Posted :
        /\ Contains(ToLower(config.image_search_pattern), ToLower(p.name))
        /\ ToLower(PathSuffix(p.name)) \in image_extensions
        /\ p.dir \in scanned
        /\ extract_name_from_genx_filename(p.name) # None => p \in guarded

\* C13 amended, the steps: the request for an image comes after the scan of
\* its folder
C13_ScanBeforePost ==
    [][posts' # posts => character_image_path.dir \in scanned]_vars

\* C13 amended: every image a request is submitted for has passed the pattern
\* match at the scan of its folder, before the request; if a subject can be
\* derived from its name the duplicate check judged the subject new at that
\* scan; an image whose name yields no subject is submitted unchecked
C13_Amended == []C13_GuardedIfSubject /\ C13_ScanBeforePost

\* requests were sent for an image the duplicate check judged new and for an
\* image without subject, which no check was made for
C13_Witness ==
    /\ \E p \in Posted : p \in guarded
    /\ \E p \in Posted : extract_name_from_genx_filename(p.name) = None

\* C14 as it stands: within one run no two requests are submitted for the
\* same subject
C14_OneRequestPerSubject ==
    \A p, q \in Posted :
        (p # q /\ extract_name_from_genx_filename(p.name) # None) =>
            extract_name_from_genx_filename(p.name)
                # extract_name_from_genx_filename(q.name)
(* The duplicate decision and the subject of a file name                   *)

\* v is a video file in the search root or below it whose stem holds, whatever
\* the case, every token of the subject
HoldsEveryToken(v, subject) ==
    /\ v.dir \in {Downloads, DownloadsSub}
    /\ PathSuffix(v.name) \in video_extensions
    /\ \A k \in 1..Len(Split(subject)) :
           Contains(ToLower(Split(subject)[k]), ToLower(PathStem(v.name)))

\* C15: check_existing_videos(subject, searchRoot) is true iff one video file
\* under searchRoot, at any depth, has a stem that contains every token of the
\* subject, case-insensitively: "JANE DOE" with jane_doe_final.mp4 is true,
\* with only john_smith.mp4 false, with the tokens spread over two videos false
C15_DuplicateDecision ==
    probe.op = "check_existing_videos" =>
        /\ probe.out = (\E v \in probe.vids : HoldsEveryToken(v, probe.name))
        /\ (probe.name = SubjectJaneDoe /\ VidJaneDoeFinal \in probe.vids)
               => probe.out = TRUE
        /\ (probe.name = SubjectJaneDoe /\ probe.vids = {VidJohnSmith})
               => probe.out = FALSE
        /\ (probe.name = SubjectJaneDoe /\ probe.vids = {VidJane, VidDoe})
               => probe.out = FALSE

\* "JANE DOE" was looked up with jane_doe_final.mp4 and john_smith.mp4 on disk
C15_Witness ==
    /\ probe.op = "check_existing_videos"
    /\ probe.name = SubjectJaneDoe
    /\ probe.vids = {VidJaneDoeFinal, VidJohnSmith}
    /\ probe.out = TRUE

\* C16 as it stands: the subject is derived iff the stem has at least three
\* whitespace-separated tokens, the first is the configured search pattern
\* and the last the suffix token; it is then the space-joined middle tokens,
\* for whatever pattern is configured
C16_SubjectByConfiguredPattern ==
    probe.op = "extract_name_from_genx_filename" =>
        LET parts == Split(PathStem(probe.filename))
            fits == /\ Len(parts) >= 3
                    /\ ToLower(parts[1]) = ToLower(probe.pattern)
                    /\ ToLower(parts[Len(parts)]) = SuffixSelf
        IN probe.out = (IF fits THEN JoinSpace(SubSeq(parts, 2, Len(parts) - 1))
                        ELSE None)

(* The scan of a folder, before and after the video                        *)

\* C17 as it stands: a folder holding genx_JANE_DOE_self.jpg (pattern genx,
\* non-exact) is listed as eligible while no output exists, and the scan after
\* the output video appeared in the search root lists nothing
C17_Original ==
    (/\ probe.filename = NameJaneUnderscores
     /\ probe.pattern = PatternGenx
     /\ ~probe.exact_match) =>
        /\ (probe.op = "scan" /\ probe.vids = {})
               => probe.out = <<NameJaneUnderscores>>
        /\ probe.op = "rescan" => probe.out = <<>>

\* C17 amended: a folder holding "genx JANE DOE self.jpg", its tokens
\* separated by spaces (pattern genx, non-exact), is listed as eligible while
\* no video of the subject exists, and the scan after its output video
\* appeared in the search root lists nothing; genx_JANE_DOE_self.jpg, which
\* yields no subject, is listed by every scan
C17_Amended ==
    (probe.pattern = PatternGenx /\ ~probe.exact_match) =>
        /\ (/\ probe.filename = NameJaneSpaces
            /\ probe.op = "scan"
            /\ VidJaneDoeFinal \notin probe.vids)
               => probe.out = <<NameJaneSpaces>>
        /\ (probe.filename = NameJaneSpaces /\ probe.op = "rescan")
               => probe.out = <<>>
        /\ (probe.filename = NameJaneUnderscores
               /\ probe.op \in {"scan", "rescan"})
               => probe.out = <<NameJaneUnderscores>>

\* the folder with "genx JANE DOE self.jpg" was scanned again after the output
\* video appeared, and nothing was listed
C17_Witness ==
    /\ probe.op = "rescan"
    /\ probe.filename = NameJaneSpaces
    /\ probe.pattern = PatternGenx
    /\ ~probe.exact_match
    /\ VidJaneDoeFinal \notin probe.vids
    /\ probe.out = <<>>

(* The folder list of a run                                                *)

\* C18 as it stands: the folder list of a run is sorted case-insensitively by
\* folder name and holds a direct subfolder of the root iff that subfolder
\* yields at least one eligible image
C18_FolderListSortedEligible ==
    (pc \in {"pai_folder", "ui_folder"} /\ fi = 1 /\ attempted = <<>>) =>
        /\ \A j, k \in 1..Len(folders) :
               j < k => StrLess(ToUpper(folders[j]), ToUpper(folders[k]))
        /\ \A f \in FolderNames :
               (\E k \in 1..Len(folders) : folders[k] = f)
                   <=> (\E k \in images[f] :
                           Eligible(FileUniverse[k].name, videos,
                                    config.image_search_pattern,
                                    config.exact_match))

(* The exact-match rules                                                   *)

\* C19 as it stands: in exact mode with a pattern that begins with '-' or
\* '_', _matches_pattern is true iff the lowercased pattern occurs in the
\* lowercased, extension-stripped name at some position greater than 0 and
\* that occurrence is followed by the end or a non-alphanumeric character;
\* "-selfie" matches person-selfie.jpg and not selfie-vacation.jpg
C19_LeadingDelimiterRule ==
    (/\ probe.op = "_matches_pattern"
     /\ probe.exact_match
     /\ probe.pattern[1] \in {"-", "_"}) =>
        LET p == ToLower(probe.pattern)
            n == PathStem(ToLower(probe.filename))
        IN /\ probe.out =
                  (\E q \in 2..Len(n) :
                       /\ OccursAt(p, n, q)
                       /\ \/ q + Len(p) - 1 = Len(n)
                          \/ ~IsAlnum(n[q + Len(p)]))
           /\ (probe.pattern = PatternDashSelfie
                   /\ probe.filename = NamePersonSelfie) => probe.out = TRUE
           /\ (probe.pattern = PatternDashSelfie
                   /\ probe.filename = NameSelfieVacation) => probe.out = FALSE

\* C20 as it stands: the exact-match rule of the folder scan matches a name
\* only when the pattern appears after a delimiter: "selfie" matches
\* person-selfie.jpg and my_selfie.jpg, and matches neither
\* selfie-vacation.png nor myselfie.png
C20_ExactScanRule ==
    (/\ probe.op = "pattern_test"
     /\ probe.exact_match
     /\ probe.pattern = PatternSelfie) =>
        LET n == ToLower(probe.filename)
        IN /\ probe.out =>
                  \E q \in 2..Len(n) :
                      /\ OccursAt(PatternSelfie, n, q)
                      /\ ~IsAlnum(n[q - 1])
           /\ probe.filename = NamePersonSelfie => probe.out = TRUE
           /\ probe.filename = NameMySelfie => probe.out = TRUE
           /\ probe.filename = NameSelfieVacationPng => probe.out = FALSE
           /\ probe.filename = NameMyselfie => probe.out = FALSE

\* C21: the two exact-match rules are not equivalent: for person-selfie.jpg
\* and the pattern "-selfie", _matches_pattern, which counts the images in the
\* folder picker, says yes, and the boundary regex of get_genx_image_files,
\* which selects the images to process, says no
C21_ExactRulesDiffer ==
    (/\ probe.op = "exact_rules"
     /\ probe.filename = NamePersonSelfie
     /\ probe.pattern = PatternDashSelfie) =>
        /\ probe.out.picker = TRUE
        /\ probe.out.scan = FALSE

\* both rules were applied to person-selfie.jpg and "-selfie" and disagreed
C21_Witness ==
    /\ probe.op = "exact_rules"
    /\ probe.filename = NamePersonSelfie
    /\ probe.pattern = PatternDashSelfie
    /\ probe.out.picker # probe.out.scan

(* The ratio of a request                                                  *)

\* C22 as it stands: in fixed ratio mode a generation whose driver video and
\* image can be read proceeds to submission, and its output file is named
\* with the configured ratio
C22_FixedRatioSubmitted ==
    config.aspect_ratio_mode = "fixed" =>
        /\ (/\ pc \in {"pai_result", "ui_result"}
            /\ outcome \notin {"MissingReferenceAsset", "EncodingError"})
               => posts[character_image_path] > 0
        /\ output_path # NoPath =>
               output_path = OutputPath(output_folder,
                                        character_image_path.name,
                                        AVAILABLE_RATIOS[1])

\* C23: select_best_ratio(a) returns the catalog entry with the smallest
\* |a - aspect|, on a tie the first such entry in catalog order (16:9, 9:16,
\* 1:1, 4:3, 3:4, 21:9); for the aspect of each of the 6 catalog entries it
\* returns that entry
C23_NearestFirstOnTie ==
    probe.op = "select_best_ratio" =>
        \E k \in 1..Len(AVAILABLE_RATIOS) :
            /\ probe.out = AVAILABLE_RATIOS[k]
            /\ \A j \in 1..Len(AVAILABLE_RATIOS) :
                   ~DifferenceLess(probe.width, probe.height,
                                   AVAILABLE_RATIOS[j], AVAILABLE_RATIOS[k])
            /\ \A j \in 1..(k - 1) :
                   DifferenceLess(probe.width, probe.height,
                                  AVAILABLE_RATIOS[k], AVAILABLE_RATIOS[j])
            /\ \A j \in 1..Len(AVAILABLE_RATIOS) :
                   (/\ probe.width = AVAILABLE_RATIOS[j].aspectNum
                    /\ probe.height = AVAILABLE_RATIOS[j].aspectDen) => k = j

\* the aspect 7/8, as far from 1:1 as from 3:4, was given and 1:1, the earlier
\* of the two in the catalog, came back
C23_Witness ==
    /\ probe.op = "select_best_ratio"
    /\ probe.width = 7
    /\ probe.height = 8
    /\ probe.out = AVAILABLE_RATIOS[3]

(* The crop and the resize                                                 *)

\* C24 as it stands: for every source image of width >= 1 and height >= 1
\* and every catalog profile, resize_image_smart computes a centered crop box
\* that is non-empty and lies inside the source (the width cropped at full
\* height when the source is wider than the target aspect, else the height at
\* full width) and returns an image of exactly profile.width x profile.height
C24_CropInsideExactSize ==
    probe.op = "resize_image_smart" =>
        LET box == probe.out.box
            profile == AVAILABLE_RATIOS[probe.ratio]
            wider == probe.width * profile.aspectDen
                         > profile.aspectNum * probe.height
        IN /\ 0 <= box.left /\ box.left < box.right
           /\ box.right <= probe.width
           /\ 0 <= box.top /\ box.top < box.bottom
           /\ box.bottom <= probe.height
           /\ Abs(box.left - (probe.width - box.right)) <= 1
           /\ Abs(box.top - (probe.height - box.bottom)) <= 1
           /\ IF wider THEN box.top = 0 /\ box.bottom = probe.height
              ELSE box.left = 0 /\ box.right = probe.width
           /\ probe.out.size = [width |-> profile.width,
                                height |-> profile.height]

(* The states of a task                                                    *)

\* C25, terminal states: in the state a poll that read SUCCEEDED or FAILED
\* leaves, the call has left the polling loop and no task is in flight
C25_TerminalIsFinal ==
    status \in {"SUCCEEDED", "FAILED"} =>
        /\ pc \in {"pai_result", "ui_result"}
        /\ inflight = {}
        /\ outcome \in SucceededOutcomes \cup {"RemoteGenerationFailed"}

\* C25, the other statuses: after a poll that read another status, an
\* unrecognised one included, the task is still polled, unless a later poll
\* got no answer or the time ran out
C25_OtherStatusKeepsRunning ==
    status \notin {"none", "SUCCEEDED", "FAILED"} =>
        \/ /\ pc = "gen_poll"
           /\ inflight = {character_image_path}
           /\ wait_time = polls * poll_interval
        \/ /\ pc \in {"pai_result", "ui_result"}
           /\ outcome \in {"PollError", "Exception", "Timeout"}

\* C25, the steps: the polling loop is entered only by the request that
\* creates a task, so a task that left it is never polled again; a round that
\* stays in the loop moves the clock on by the 10 seconds of its sleep
C25_PollSteps ==
    [][/\ (pc' = "gen_poll" /\ pc # "gen_poll") =>
              (posts' # posts /\ status = "none" /\ wait_time' = 0)
       /\ (pc = "gen_poll" /\ pc' = "gen_poll") =>
              (/\ wait_time' = wait_time + poll_interval
               /\ status' \notin {"SUCCEEDED", "FAILED"}
               /\ posts' = posts)]_vars

\* C25: once a status poll of a task has returned SUCCEEDED or FAILED no
\* further status request is issued for that task; any other status value,
\* an unrecognised one included, leaves the task running, and the next poll
\* comes 10 seconds later
C25_TerminalFinalOthersRun ==
    []C25_TerminalIsFinal /\ []C25_OtherStatusKeepsRunning /\ C25_PollSteps

\* a task is still polled after two rounds, the second of which read a status
\* the code does not know
C25_Witness ==
    /\ status = "UNKNOWN"
    /\ pc = "gen_poll"
    /\ polls = 2
    /\ wait_time = 2 * poll_interval

(* The cached driver video                                                 *)

\* C26, the states: the driver video has been encoded successfully at most
\* once, and the payload is cached exactly when it has been
C26_AtMostOneEncoding ==
    /\ encodings <= 1
    /\ driver_video_data_uri <=> encodings = 1

\* C26, the steps: once the payload is cached no step encodes the video again
\* or drops the payload, and every request is sent with the payload cached
C26_CacheReused ==
    [][/\ driver_video_data_uri =>
              (driver_video_data_uri' /\ encodings' = encodings)
       /\ posts' # posts => driver_video_data_uri']_vars

\* C26: over the calls of create_act_two_generation on one generator the
\* reference video is encoded successfully at most once; after the first
\* successful encoding every later request reuses the cached payload and the
\* file is not read again
C26_EncodedOnce == []C26_AtMostOneEncoding /\ C26_CacheReused

\* two requests were sent in a run that encoded the driver video once
C26_Witness ==
    /\ encodings = 1
    /\ TotalPosts(AllPaths) = 2

(* Running the batch again                                                 *)

\* the output video of the image p lies in the Downloads folder or below it
GeneratedIntoSearchRoot(p) ==
    \E v \in videos :
        /\ UnderDownloads(v.dir)
        /\ IsOutputPathOf(v, v.dir, FileOf(p))

\* C27, the scans: a scan of a folder lists no image whose subject can be
\* derived and whose output video lies under the Downloads search root
C27_ScanExcludesGenerated ==
    [][(pc \in {"pai_folder", "ui_folder"} /\ fi <= Len(folders)) =>
           \A j \in 1..Len(genx_image_files') :
               ~(/\ extract_name_from_genx_filename(
                        genx_image_files'[j].name) # None
                 /\ GeneratedIntoSearchRoot(genx_image_files'[j]))]_vars

\* C27, the requests: no request is sent for such an image
C27_NoRequestForGenerated ==
    [][(pc = "gen_entry" /\ posts' # posts) =>
           ~(/\ extract_name_from_genx_filename(character_image_path.name)
                    # None
             /\ GeneratedIntoSearchRoot(character_image_path))]_vars

\* C27: when an image whose subject can be derived was generated
\* successfully and its output file was written under the Downloads search
\* root, every later scan of its folder excludes the image and a second batch
\* run submits no request for it
C27_RerunIdempotent == C27_ScanExcludesGenerated /\ C27_NoRequestForGenerated

\* the second run is over: it scanned the folder of an image with a subject
\* that the first run generated into the Downloads folder, and sent no
\* request for it
C27_Witness ==
    /\ runs = 2
    /\ pc = "done"
    /\ OldVideo \notin videos
    /\ \E p \in AllPaths :
           /\ \E k \in images[p.dir] : FileUniverse[k].name = p.name
           /\ extract_name_from_genx_filename(p.name) # None
           /\ GeneratedIntoSearchRoot(p)
           /\ p.dir \in scanned
           /\ posts[p] = 0

(* The two processing paths                                                *)

\* C28 as it stands: for the same configuration and disk the verbose path and
\* the progress-bar path submit for the same images, found with the same
\* pattern and exact-match flag, with the same generation parameters and the
\* same output folder: the call for an image is the one either path makes
C28_PathsAgree ==
    pc = "gen_entry" =>
        /\ [output_folder |-> output_folder, config |-> gen_config]
               = pai_call(character_image_path)
        /\ [output_folder |-> output_folder, config |-> gen_config]
               = ui_call(character_image_path)

(* The output paths of a run                                               *)

\* C29 as it stands: within one run two different eligible images never
\* resolve to the same output path, so no artifact written by the run is
\* overwritten by that of another image: the path of the task being polled
\* holds no video yet
C29_NoOutputPathShared ==
    pc = "gen_poll" => output_path \notin videos

\* C30: every request that is submitted carries a character image whose
\* width and height are those of the ratio declared in the same request; a
\* failed crop-and-resize never leaves the original image in a request
C30_RequestCarriesRatioSize ==
    payload # NoPayload =>
        \E k \in 1..Len(AVAILABLE_RATIOS) :
            /\ AVAILABLE_RATIOS[k].api_value = payload.ratio
            /\ AVAILABLE_RATIOS[k].width = payload.width
            /\ AVAILABLE_RATIOS[k].height = payload.height
====
